---- MODULE Spec2Model ----
(***************************************************************************)
(* StarCalculator (src/only.py): derivation of mass, temperature, lifespan *)
(* and spectral type of a main-sequence star from one seed property.       *)
(*                                                                         *)
(* Numbers.  The program computes with Python floats.  The model computes  *)
(* with exact reals of the form  c * b^(p/q)  (c, b rational, p/q a        *)
(* rational exponent), which is closed under every arithmetic operation    *)
(* the program performs.  A power of a negative base with a non-integer    *)
(* exponent is a Python complex number.  Ordering comparisons of a power   *)
(* against a constant use a fixed-point evaluation (micro-units) of the    *)
(* power as exp((p/q) ln b), by series; it agrees with the float value to  *)
(* a few parts in a million.                                               *)
(*                                                                         *)
(* Strings are sequences of one-character strings.                         *)
(***************************************************************************)
EXTENDS Integers, Sequences, FiniteSets, TLC

VARIABLES
    mass, temperature, lifespan, spectral_type, metallicity, \* the object's fields
    args,      \* the constructor's arguments (history)
    pre,       \* the fields, last and outcome before the last method call (history)
    last,      \* the last method called on the object
    outcome,   \* how that call ended: "ok" or the exception raised
    calls,     \* number of method calls made on the object
    probe,     \* argument of the last determine_spectral_type_with_subclass call
    ret        \* value that call returned

vars == <<mass, temperature, lifespan, spectral_type, metallicity,
          args, pre, last, outcome, calls, probe, ret>>

-----------------------------------------------------------------------------
(* Bounds of the model.                                                    *)

\* Method calls made on one object.
MaxCalls == 2

\* Terms of the series used when a power is evaluated numerically.
Precision == 10

\* Largest whole temperature (K) handed to the classifier on its own.
MaxProbe == 61000

-----------------------------------------------------------------------------
(* Exact arithmetic.                                                       *)

Abs(n) == IF n < 0 THEN -n ELSE n

RECURSIVE GCD(_, _)
GCD(a, b) == IF b = 0 THEN a ELSE GCD(b, a % b)

\* Python's None, in the shape of a number so that fields compare.
NoneVal == [k |-> "none", cn |-> 0, cd |-> 1, bn |-> 1, bd |-> 1, p |-> 0, q |-> 1]

\* The rational n/d in lowest terms, d # 0.
Rat(n, d) ==
    LET g == GCD(Abs(n), Abs(d))
        s == IF d < 0 THEN -1 ELSE 1
    IN  [k |-> "rat", cn |-> (s * n) \div g, cd |-> (s * d) \div g,
         bn |-> 1, bd |-> 1, p |-> 0, q |-> 1]

IsNone(x) == x.k = "none"
IsRat(x) == x.k = "rat"
IsPow(x) == x.k = "pow"
IsComplex(x) == x.k = "complex"

\* Python truthiness of a number or None: None and zero are falsy.
Truthy(x) == ~IsNone(x) /\ ~(IsRat(x) /\ x.cn = 0)

\* x > 0 for a real x; a complex value or None is not a positive real.
Positive(x) == (IsRat(x) \/ IsPow(x)) /\ x.cn > 0

\* The exception marker a power can produce.
ZeroDivision == [k |-> "ZeroDivisionError", cn |-> 0, cd |-> 1, bn |-> 1, bd |-> 1,
                 p |-> 0, q |-> 1]

\* c * b^(p/q) with b > 0, brought to normal form.
MkPow(cn, cd, bn, bd, p, q) ==
    LET g  == GCD(Abs(p), Abs(q))
        pp == p \div g
        qq == q \div g
    IN  IF pp = 0 \/ bn = bd THEN Rat(cn, cd)
        ELSE IF qq = 1 /\ pp = 1 THEN Rat(cn * bn, cd * bd)
        ELSE [k |-> "pow", cn |-> Rat(cn, cd).cn, cd |-> Rat(cn, cd).cd,
              bn |-> Rat(bn, bd).cn, bd |-> Rat(bn, bd).cd, p |-> pp, q |-> qq]

\* x ** (p/q) for a non-integer exponent p/q (Python float/complex power).
\* The program only raises to a power a rational or a pure power (c = 1).
\* Powers of complex numbers are principal values and do not compose: a
\* power of a complex number stays complex, whatever its exponent becomes.
Pow(x, p, q) ==
    IF IsRat(x) THEN
        IF x.cn = 0 THEN (IF p < 0 THEN ZeroDivision ELSE Rat(0, 1))
        ELSE IF x.cn < 0 THEN
            [k |-> "complex", cn |-> 1, cd |-> 1, bn |-> x.cn, bd |-> x.cd,
             p |-> p, q |-> q]
        ELSE MkPow(1, 1, x.cn, x.cd, p, q)
    ELSE IF IsPow(x) /\ x.cn = 1 /\ x.cd = 1 THEN
        MkPow(1, 1, x.bn, x.bd, x.p * p, x.q * q)
    ELSE LET g == GCD(Abs(x.p * p), Abs(x.q * q))
         IN  [x EXCEPT !.k = "complex", !.p = (x.p * p) \div g, !.q = (x.q * q) \div g]

\* (n/d) * x for a rational constant n/d.
Mul(n, d, x) ==
    IF IsRat(x) THEN Rat(n * x.cn, d * x.cd)
    ELSE IF IsPow(x) THEN MkPow(n * x.cn, d * x.cd, x.bn, x.bd, x.p, x.q)
    ELSE [x EXCEPT !.cn = Rat(n * x.cn, d * x.cd).cn, !.cd = Rat(n * x.cn, d * x.cd).cd]

-----------------------------------------------------------------------------
(* Numerical evaluation of a power, in micro-units (fixed point).          *)

Micro == 1000 * 1000

\* floor(Micro * n / d) for n >= 0, d > 0, without leaving 32 bits.
FxOfRat(n, d) ==
    LET r  == n % d
        a  == (r * 1000) \div d
        r2 == (r * 1000) % d
    IN  (n \div d) * Micro + a * 1000 + (r2 * 1000) \div d

\* a * b / Micro on micro-unit values.
MulFx(a, b) ==
    LET a1 == a \div 1000
        a0 == a % 1000
        b1 == b \div 1000
        b0 == b % 1000
    IN  a1 * b1 + (a1 * b0 + a0 * b1) \div 1000 + (a0 * b0) \div Micro

\* floor(Micro * a / b) for micro-unit values 0 <= a < b < 20 * Micro.
DivFx(a, b) ==
    LET d1 == (a * 100) \div b
        r1 == (a * 100) % b
        d2 == (r1 * 100) \div b
        r2 == (r1 * 100) % b
    IN  d1 * 10000 + d2 * 100 + (r2 * 100) \div b

RECURSIVE Pow2(_)
Pow2(n) == IF n = 0 THEN 1 ELSE 2 * Pow2(n - 1)

\* The k with Micro <= x / 2^k < 2 * Micro, for x > 0.
RECURSIVE Exponent(_)
Exponent(x) ==
    IF x < Micro THEN Exponent(2 * x) - 1
    ELSE IF x >= 2 * Micro THEN Exponent(x \div 2) + 1
    ELSE 0

\* 1 + w/3 + w^2/5 + ... : the series of atanh(z)/z in w = z^2, from term i on.
RECURSIVE AtanhSeries(_, _)
AtanhSeries(w, i) ==
    IF i > Precision THEN 0
    ELSE Micro \div (2 * i + 1) + MulFx(w, AtanhSeries(w, i + 1))

\* ln(x) for x > 0:  k ln 2 + 2 atanh((m - 1)/(m + 1)),  x = 2^k m, 1 <= m < 2.
LnFx(x) ==
    LET k == Exponent(x)
        m == IF k >= 0 THEN x \div Pow2(k) ELSE x * Pow2(-k)
        z == DivFx(m - Micro, m + Micro)
    IN  k * 693147 + 2 * MulFx(z, AtanhSeries(MulFx(z, z), 0))

\* 1 + r/i (1 + r/(i+1) (1 + ...)) : the series of exp(r), from term i on.
RECURSIVE ExpSeries(_, _)
ExpSeries(r, i) ==
    IF i > Precision THEN Micro
    ELSE Micro + MulFx(r, ExpSeries(r, i + 1)) \div i

\* exp(y):  2^n exp(r),  y = n ln 2 + r, 0 <= r < ln 2.
ExpFx(y) ==
    LET n == y \div 693147
        e == ExpSeries(y % 693147, 1)
    IN  IF n >= 0 THEN e * Pow2(n) ELSE e \div Pow2(-n)

\* (bn/bd)^(p/q) in micro-units, for bn/bd > 0:  exp((p/q) ln(bn/bd)).
PowFx(bn, bd, p, q) ==
    LET l == LnFx(FxOfRat(bn, bd))
    IN  ExpFx((l \div q) * p + ((l % q) * p) \div q)

\* A positive real as a rational: itself when rational, else its evaluation
\* to a thousandth.
Approx(x) ==
    IF IsRat(x) THEN x
    ELSE LET v == PowFx(x.bn, x.bd, x.p, x.q)       \* micro-units of b^(p/q)
             m == (x.cn * (v \div 1000) + (x.cn * (v % 1000)) \div 1000) \div x.cd
                                                    \* thousandths of c * b^(p/q)
         IN  Rat(m, 1000)

\* x >= n/d for a real x that is rational or a positive power.
RatGE(a, n, d) == a.cn * d >= n * a.cd
GE(x, n, d) == RatGE(Approx(x), n, d)

\* x < n/d, likewise.
LT(x, n, d) == ~RatGE(Approx(x), n, d)

-----------------------------------------------------------------------------
(* Strings.                                                                *)

StrVal(s) == [k |-> "str", s |-> s]
NoneStr == [k |-> "none", s |-> <<>>]

\* Python truthiness of a string or None.
TruthyStr(x) == x.k = "str" /\ Len(x.s) > 0

Digits == <<"0", "1", "2", "3", "4", "5", "6", "7", "8", "9">>
DigitValue(c) == CHOOSE d \in 0..9 : Digits[d + 1] = c

\* str.isdigit() on ASCII text.
isdigit(s) == Len(s) > 0 /\ \A i \in 1..Len(s) : \E d \in 1..10 : Digits[d] = s[i]

\* int(s) for a string of digits.
RECURSIVE int(_)
int(s) == IF Len(s) = 0 THEN 0
          ELSE 10 * int(SubSeq(s, 1, Len(s) - 1)) + DigitValue(s[Len(s)])

\* s[1:]
Rest(s) == SubSeq(s, 2, Len(s))

Min(a, b) == IF a < b THEN a ELSE b

WolfRayet == <<"W", "o", "l", "f", " ", "R", "a", "y", "e", "t", " ", "S", "t", "a", "r">>
BelowT == <<"B", "e", "l", "o", "w", " ", "T", " ", "t", "y", "p", "e", " ", "(", "Y",
            " ", "d", "w", "a", "r", "f", " ", "o", "r", " ", "p", "l", "a", "n", "e",
            "t", ")">>

-----------------------------------------------------------------------------
(* The methods of StarCalculator, as functions from the object (a record   *)
(* of its fields) to the object after the call; err names the exception    *)
(* the call raised, or is "ok".                                            *)

ErrTypeStr == [k |-> "TypeError", s |-> <<>>]

\* Mutant: the band's lower bound made exclusive.
AtLeastStrict(t, c) == t.cn > c * t.cd

\* temperature >= c  and  int((upper - temperature) // divisor)  on a real.
AtLeast(t, c) == t.cn >= c * t.cd
FloorDiv(upper, t, divisor) == (upper * t.cd - t.cn) \div (divisor * t.cd)

\* f"{spectral_type}{subclass}" for an integer subclass.
Label(letter, subclass) == StrVal(<<letter>> \o <<Digits[subclass + 1]>>)

\* The chain of comparisons, on a real temperature t.
Band(t) ==
    IF AtLeast(t, 60000) THEN StrVal(WolfRayet \o <<Digits[1]>>)
    ELSE IF AtLeast(t, 30000) /\ ~AtLeast(t, 60000) THEN
        Label("O", Min(9, FloorDiv(60000, t, 3000)))
    ELSE IF AtLeast(t, 10000) /\ ~AtLeast(t, 30000) THEN
        Label("B", Min(9, FloorDiv(30000, t, 2000)))
    ELSE IF AtLeast(t, 7500) /\ ~AtLeast(t, 10000) THEN
        Label("A", Min(9, FloorDiv(10000, t, 250)))
    ELSE IF AtLeast(t, 6000) /\ ~AtLeast(t, 7500) THEN
        Label("F", Min(9, FloorDiv(7500, t, 150)))
    ELSE IF AtLeast(t, 5200) /\ ~AtLeast(t, 6000) THEN
        Label("G", Min(9, FloorDiv(6000, t, 80)))
    ELSE IF AtLeast(t, 3700) /\ ~AtLeast(t, 5200) THEN
        Label("K", Min(9, FloorDiv(5200, t, 150)))
    ELSE IF AtLeast(t, 2400) /\ ~AtLeast(t, 3700) THEN
        Label("M", Min(9, FloorDiv(3700, t, 130)))
    ELSE IF AtLeast(t, 1300) /\ ~AtLeast(t, 2400) THEN
        Label("L", Min(9, FloorDiv(2400, t, 100)))
    ELSE IF AtLeast(t, 600) /\ ~AtLeast(t, 1300) THEN
        Label("T", Min(9, FloorDiv(1300, t, 70)))
    ELSE StrVal(BelowT)

\* Comparing a complex number (or None) with a number raises TypeError.
determine_spectral_type_with_subclass(temp) ==
    IF ~(IsRat(temp) \/ (IsPow(temp) /\ temp.cn > 0)) THEN ErrTypeStr
    ELSE Band(Approx(temp))

ErrMass == "ValueError: Mass must be provided to calculate other properties."
ErrTemperature == "ValueError: Temperature must be provided to calculate other properties."
ErrSpectral == "ValueError: Spectral type must be provided to calculate other properties."
ErrUnknown == "ValueError: Unknown spectral type."
ErrNoSeed == "ValueError: At least one property (mass, temperature, or spectral type) must be provided."

Raise(o, e) == [o EXCEPT !.err = e]

\* self.temperature = 5800 * (self.mass ** 0.505)
TemperatureOfMass(m) == Mul(5800, 1, Pow(m, 101, 200))

\* Mutant: the high-mass formula only above 0.43.
LifespanOfMassStrict(m) ==
    IF GE(m, 43, 100) /\ m # Rat(43, 100) THEN Mul(10, 1, Pow(m, -5, 2))
    ELSE Mul(15, 1, Pow(m, -9, 5))

\* The lifespan branch of calculate_from_mass.
LifespanOfMass(m) ==
    IF GE(m, 43, 100) THEN Mul(10, 1, Pow(m, -5, 2))
    ELSE Mul(15, 1, Pow(m, -9, 5))

\* prompt: what float(input(...) or 1.0) returns if the prompt is reached.
\* The assignments are made in the order temperature, lifespan,
\* spectral_type, metallicity; an exception keeps those already made.
calculate_from_mass(o, prompt) ==
    IF ~Truthy(o.mass) THEN Raise(o, ErrMass)
    ELSE IF IsComplex(o.mass) THEN                       \* complex >= 0.43
        [o EXCEPT !.temperature = TemperatureOfMass(o.mass), !.err = "TypeError"]
    ELSE IF determine_spectral_type_with_subclass(TemperatureOfMass(o.mass)) = ErrTypeStr
    THEN                                                 \* complex >= 60000
        [o EXCEPT !.temperature = TemperatureOfMass(o.mass),
                  !.lifespan = LifespanOfMass(o.mass),
                  !.err = "TypeError"]
    ELSE
        [o EXCEPT !.temperature = TemperatureOfMass(o.mass),
                  !.lifespan = LifespanOfMass(o.mass),
                  !.spectral_type =
                      determine_spectral_type_with_subclass(TemperatureOfMass(o.mass)),
                  !.metallicity = IF IsNone(@) THEN prompt ELSE @]

\* Mutant: the inverse exponent taken as 1/0.5.
calculate_from_temperature_square(o, prompt) ==
    IF ~Truthy(o.temperature) THEN Raise(o, ErrTemperature)
    ELSE calculate_from_mass(
            [o EXCEPT !.mass = Pow(Mul(1, 5800, o.temperature), 2, 1)], prompt)

calculate_from_temperature(o, prompt) ==
    IF ~Truthy(o.temperature) THEN Raise(o, ErrTemperature)
    ELSE calculate_from_mass(
            [o EXCEPT !.mass = Pow(Mul(1, 5800, o.temperature), 200, 101)], prompt)

spectral_type_dict ==
    [letter \in {"O", "B", "A", "F", "G", "K", "M", "L", "T"} |->
        CASE letter = "O" -> <<Rat(20, 1), Rat(50000, 1)>>
          [] letter = "B" -> <<Rat(25, 10), Rat(25000, 1)>>
          [] letter = "A" -> <<Rat(2, 1), Rat(10000, 1)>>
          [] letter = "F" -> <<Rat(14, 10), Rat(7500, 1)>>
          [] letter = "G" -> <<Rat(11, 10), Rat(5800, 1)>>
          [] letter = "K" -> <<Rat(8, 10), Rat(4500, 1)>>
          [] letter = "M" -> <<Rat(5, 10), Rat(3500, 1)>>
          [] letter = "L" -> <<Rat(8, 100), Rat(2200, 1)>>
          [] letter = "T" -> <<Rat(5, 100), Rat(1200, 1)>>]

\* subclass and adjustment_factor, from the text s of the spectral type.
Subclass(s) == IF Len(s) > 1 /\ isdigit(Rest(s)) THEN int(Rest(s)) ELSE 0
AdjustmentFactor(s) == Rat(100 + (5 - Subclass(s)), 100)

\* self.mass = base_mass * adjustment_factor, and likewise self.temperature.
Adjusted(o, base, factor) ==
    [o EXCEPT !.mass = Mul(base[1].cn, base[1].cd, factor),
              !.temperature = Mul(base[2].cn, base[2].cd, factor)]

\* Mutant: the mass path taken whatever the mass.
AlwaysMassPath(o, prompt) == calculate_from_mass(o, prompt)

\* The lifespan branch of calculate_from_spectral_type; 0.0 ** -1.8 raises.
LifespanOrMassPath(o, prompt) ==
    IF LT(o.mass, 43, 100) THEN
        IF Pow(o.mass, -9, 5) = ZeroDivision THEN Raise(o, "ZeroDivisionError")
        ELSE [o EXCEPT !.lifespan = Mul(15, 1, Pow(o.mass, -9, 5))]
    ELSE calculate_from_mass(o, prompt)

calculate_from_spectral_type(o, prompt) ==
    IF ~TruthyStr(o.spectral_type) THEN Raise(o, ErrSpectral)
    ELSE IF o.spectral_type.s[1] \in DOMAIN spectral_type_dict THEN
        LifespanOrMassPath(
            Adjusted(o, spectral_type_dict[o.spectral_type.s[1]],
                     AdjustmentFactor(o.spectral_type.s)),
            prompt)
    ELSE Raise(o, ErrUnknown)

\* Mutant: temperature tried before mass.
calculate_properties_temperature_first(o, prompt) ==
    IF Truthy(o.temperature) THEN calculate_from_temperature(o, prompt)
    ELSE IF Truthy(o.mass) THEN calculate_from_mass(o, prompt)
    ELSE IF TruthyStr(o.spectral_type) THEN calculate_from_spectral_type(o, prompt)
    ELSE Raise(o, ErrNoSeed)

\* Mutant: a solar mass assumed when no seed is given.
calculate_properties_default_solar(o, prompt) ==
    IF Truthy(o.mass) THEN calculate_from_mass(o, prompt)
    ELSE IF Truthy(o.temperature) THEN calculate_from_temperature(o, prompt)
    ELSE IF TruthyStr(o.spectral_type) THEN calculate_from_spectral_type(o, prompt)
    ELSE calculate_from_mass([o EXCEPT !.mass = Rat(1, 1)], prompt)

calculate_properties(o, prompt) ==
    IF Truthy(o.mass) THEN calculate_from_mass(o, prompt)
    ELSE IF Truthy(o.temperature) THEN calculate_from_temperature(o, prompt)
    ELSE IF TruthyStr(o.spectral_type) THEN calculate_from_spectral_type(o, prompt)
    ELSE Raise(o, ErrNoSeed)

-----------------------------------------------------------------------------
(* The object and the calls made on it.                                    *)

Str(chars) == StrVal(chars)

\* Constructor arguments tried.
MassArgs ==
    {NoneVal, Rat(0, 1), Rat(-1, 1), Rat(1, 1000), Rat(2, 10), Rat(43, 100),
     Rat(1, 1), Rat(110, 1)}
TemperatureArgs ==
    {NoneVal, Rat(0, 1), Rat(-5000, 1), Rat(3787, 1), Rat(5800, 1), Rat(30000, 1)}
SpectralArgs ==
    {NoneStr, Str(<<>>), Str(<<"Z", "5">>), Str(<<"G", "2">>), Str(<<"G", "2", "x">>),
     Str(<<"M", "5">>), Str(<<"M", "2", "0">>), Str(<<"L", "5">>),
     Str(<<"L", "1", "5">>), Str(<<"T">>), Str(<<"L", "1", "0", "5">>),
     Str(<<"L", "1", "0", "6">>)}
MetallicityArgs == {NoneVal, Rat(1, 2), Rat(-2, 1)}
PromptInputs == {Rat(1, 1)}

\* The object as a record, for the method operators.
Self == [mass |-> mass, temperature |-> temperature, lifespan |-> lifespan,
         spectral_type |-> spectral_type, metallicity |-> metallicity, err |-> "ok"]

\* What a call finds: the fields, the call before it and how that one ended.
Before == [mass |-> mass, temperature |-> temperature, lifespan |-> lifespan,
           spectral_type |-> spectral_type, metallicity |-> metallicity,
           err |-> outcome, last |-> last]

\* StarCalculator(mass, temperature, None, spectral_type, metallicity)
Construct(a) ==
    /\ mass = a.mass
    /\ temperature = a.temperature
    /\ lifespan = a.lifespan
    /\ spectral_type = a.spectral_type
    /\ metallicity = IF ~IsNone(a.metallicity) THEN a.metallicity ELSE Rat(1, 1)
    /\ args = a
    /\ last = "__init__"
    /\ outcome = "ok"
    /\ calls = 0
    /\ probe = NoneVal
    /\ ret = NoneStr
    /\ pre = Before

Init ==
    \E m \in MassArgs, t \in TemperatureArgs, s \in SpectralArgs, z \in MetallicityArgs :
        Construct([mass |-> m, temperature |-> t, lifespan |-> NoneVal,
                   spectral_type |-> s, metallicity |-> z])

\* A method call on the object: the fields become those of `o`, the object
\* after the call (including what was written before an exception).
Call(name, after) ==
    /\ calls < MaxCalls
    /\ \E o \in {after} :
        /\ mass' = o.mass
        /\ temperature' = o.temperature
        /\ lifespan' = o.lifespan
        /\ spectral_type' = o.spectral_type
        /\ metallicity' = o.metallicity
        /\ outcome' = o.err
    /\ pre' = Before
    /\ last' = name
    /\ calls' = calls + 1
    /\ UNCHANGED <<args, probe, ret>>

CalculateProperties ==
    \E prompt \in PromptInputs : Call("calculate_properties", calculate_properties(Self, prompt))

CalculateFromMass ==
    \E prompt \in PromptInputs : Call("calculate_from_mass", calculate_from_mass(Self, prompt))

CalculateFromTemperature ==
    \E prompt \in PromptInputs :
        Call("calculate_from_temperature", calculate_from_temperature(Self, prompt))

CalculateFromSpectralType ==
    \E prompt \in PromptInputs :
        Call("calculate_from_spectral_type", calculate_from_spectral_type(Self, prompt))

Next ==
    \/ CalculateProperties
    \/ CalculateFromMass
    \/ CalculateFromTemperature
    \/ CalculateFromSpectralType

Spec == Init /\ [][Next]_vars

-----------------------------------------------------------------------------
(* The classifier on its own: determine_spectral_type_with_subclass(t)     *)
(* called once on a default-constructed object, for every temperature of   *)
(* ProbeTemps.                                                             *)

Boundaries == {600, 1300, 2400, 3700, 5200, 6000, 7500, 10000, 30000, 60000}

ProbeTemps ==
    {Rat(n, 1) : n \in 0..MaxProbe}
        \cup {Rat(10 * b - 1, 10) : b \in Boundaries}
        \cup {Rat(-1, 1), Rat(-5000, 1)}

InitClassifier ==
    Construct([mass |-> NoneVal, temperature |-> NoneVal, lifespan |-> NoneVal,
               spectral_type |-> NoneStr, metallicity |-> NoneVal])

DetermineSpectralType ==
    /\ last = "__init__"
    /\ \E t \in ProbeTemps :
        /\ probe' = t
        /\ ret' = determine_spectral_type_with_subclass(t)
    /\ last' = "determine_spectral_type_with_subclass"
    /\ pre' = Before
    /\ outcome' = "ok"
    /\ UNCHANGED <<mass, temperature, lifespan, spectral_type, metallicity, args, calls>>

NextClassifier == DetermineSpectralType

SpecClassifier == InitClassifier /\ [][NextClassifier]_vars

-----------------------------------------------------------------------------
(* Properties.                                                             *)

\* The last call was calculate_properties and it returned normally.
Resolved == last = "calculate_properties" /\ outcome = "ok"

\* The last call left every field as it found it.
FieldsUnchanged ==
    /\ mass = pre.mass
    /\ temperature = pre.temperature
    /\ lifespan = pre.lifespan
    /\ spectral_type = pre.spectral_type
    /\ metallicity = pre.metallicity

\* The object the last call found, as the methods take it.
Found == [mass |-> pre.mass, temperature |-> pre.temperature, lifespan |-> pre.lifespan,
          spectral_type |-> pre.spectral_type, metallicity |-> pre.metallicity,
          err |-> "ok"]

\* The same object with only its highest-precedence seed left.
SeedAlone ==
    IF Truthy(pre.mass) THEN
        [Found EXCEPT !.temperature = NoneVal, !.spectral_type = NoneStr]
    ELSE IF Truthy(pre.temperature) THEN
        [Found EXCEPT !.mass = NoneVal, !.spectral_type = NoneStr]
    ELSE [Found EXCEPT !.mass = NoneVal, !.temperature = NoneVal]

SameResult(o) ==
    /\ mass = o.mass
    /\ temperature = o.temperature
    /\ lifespan = o.lifespan
    /\ spectral_type = o.spectral_type

\* C1: after a successful calculate_properties the result is the one the
\* highest-precedence seed (mass, then temperature, then spectral type) gives
\* when supplied alone; a mass seed is kept and the lower-precedence fields
\* hold the values derived from it.
C1_SeedPrecedence ==
    Resolved =>
        /\ SameResult(calculate_properties(SeedAlone, Rat(1, 1)))
        /\ Truthy(pre.mass) =>
            /\ mass = pre.mass
            /\ temperature = Mul(5800, 1, Pow(pre.mass, 101, 200))
            /\ spectral_type = determine_spectral_type_with_subclass(temperature)

C1_Witness ==
    /\ Resolved
    /\ calls = 1
    /\ pre.mass = Rat(1, 1)
    /\ pre.temperature = Rat(30000, 1)
    /\ pre.spectral_type = Str(<<"L", "1", "5">>)
    /\ temperature = Rat(5800, 1)
    /\ spectral_type = Str(<<"G", "2">>)

\* The bands of the classifier: letter, lower bound, upper bound, divisor.
BandTable ==
    << <<"O", 30000, 60000, 3000>>, <<"B", 10000, 30000, 2000>>,
       <<"A", 7500, 10000, 250>>, <<"F", 6000, 7500, 150>>,
       <<"G", 5200, 6000, 80>>, <<"K", 3700, 5200, 150>>,
       <<"M", 2400, 3700, 130>>, <<"L", 1300, 2400, 100>>,
       <<"T", 600, 1300, 70>> >>

\* lo <= t < hi for a rational t.
InBand(t, b) == t.cn >= b[2] * t.cd /\ t.cn < b[3] * t.cd

\* floor((hi - t) / divisor), capped at 9.
BandDigit(t, b) == Min(9, (b[3] * t.cd - t.cn) \div (b[4] * t.cd))

Probed == last = "determine_spectral_type_with_subclass"

\* C2: every temperature falls in exactly one band, lower bound inclusive
\* and upper bound exclusive; 60000 and above is 'Wolf Rayet Star0', below
\* 600 is the 'Below T type' label without digit; in a letter band the digit
\* is min(9, floor((upper - T) / divisor)), in 0..9, and does not increase
\* with T inside the band; 30000 is in O.
C2_Bands ==
    Probed =>
        /\ Cardinality({i \in 1..Len(BandTable) : InBand(probe, BandTable[i])}
                       \cup (IF probe.cn >= 60000 * probe.cd THEN {0} ELSE {})
                       \cup (IF probe.cn < 600 * probe.cd THEN {10} ELSE {})) = 1
        /\ probe.cn >= 60000 * probe.cd => ret = StrVal(WolfRayet \o <<"0">>)
        /\ probe.cn < 600 * probe.cd => ret = StrVal(BelowT)
        /\ \A i \in 1..Len(BandTable) :
              InBand(probe, BandTable[i]) =>
                /\ BandDigit(probe, BandTable[i]) \in 0..9
                /\ ret = StrVal(<<BandTable[i][1], Digits[BandDigit(probe, BandTable[i]) + 1]>>)
                /\ LET up == Rat(probe.cn + probe.cd, probe.cd)    \* one kelvin hotter
                   IN  InBand(up, BandTable[i]) =>
                         /\ determine_spectral_type_with_subclass(up).s[1] = BandTable[i][1]
                         /\ DigitValue(determine_spectral_type_with_subclass(up).s[2])
                               <= DigitValue(ret.s[2])
        /\ probe = Rat(30000, 1) => ret.s[1] = "O"

C2_Witness == Probed /\ probe = Rat(30000, 1) /\ ret = Str(<<"O", "9">>)

\* C3: after a successful calculate_properties, whatever the seed, lifespan
\* is 10 * mass^-2.5 when mass >= 0.43 and 15 * mass^-1.8 when mass < 0.43;
\* a mass of exactly 0.43 takes the first formula.
C3_LifespanOfStoredMass ==
    Resolved =>
        /\ GE(mass, 43, 100) => lifespan = Mul(10, 1, Pow(mass, -5, 2))
        /\ LT(mass, 43, 100) => lifespan = Mul(15, 1, Pow(mass, -9, 5))
        /\ mass = Rat(43, 100) => lifespan = Mul(10, 1, Pow(Rat(43, 100), -5, 2))

C3_Witness ==
    /\ Resolved
    /\ mass = Rat(43, 100)
    /\ lifespan = Mul(10, 1, Pow(Rat(43, 100), -5, 2))

\* The last call took the spectral type as its seed, with a letter of the table.
SpectralSeeded ==
    /\ \/ last = "calculate_from_spectral_type"
       \/ last = "calculate_properties" /\ ~Truthy(pre.mass) /\ ~Truthy(pre.temperature)
    /\ TruthyStr(pre.spectral_type)
    /\ pre.spectral_type.s[1] \in DOMAIN spectral_type_dict

\* The subclass read from the text after the letter, the adjustment factor
\* 1 + 0.01 * (5 - subclass), and the reference values times that factor.
SeedSubclass ==
    IF Len(pre.spectral_type.s) > 1 /\ isdigit(Rest(pre.spectral_type.s))
    THEN int(Rest(pre.spectral_type.s)) ELSE 0
SeedFactor == Rat(100 + 5 - SeedSubclass, 100)
SeedMass ==
    Mul(spectral_type_dict[pre.spectral_type.s[1]][1].cn,
        spectral_type_dict[pre.spectral_type.s[1]][1].cd, SeedFactor)
SeedTemperature ==
    Mul(spectral_type_dict[pre.spectral_type.s[1]][2].cn,
        spectral_type_dict[pre.spectral_type.s[1]][2].cd, SeedFactor)

\* C4: with the spectral type as seed, mass is the adjusted reference mass;
\* if it is below 0.43 only lifespan is computed (temperature stays the
\* adjusted reference temperature, spectral type stays the input); otherwise
\* the mass path overwrites temperature with 5800 * mass^0.505 and spectral
\* type with the class of that temperature, which for 'G2' is not 'G2'.
C4_SpectralSeedBranches ==
    SpectralSeeded =>
        /\ mass = SeedMass
        /\ LT(SeedMass, 43, 100) =>
            /\ temperature = SeedTemperature
            /\ spectral_type = pre.spectral_type
            /\ metallicity = pre.metallicity
            /\ outcome = "ok" => lifespan = Mul(15, 1, Pow(SeedMass, -9, 5))
            /\ outcome # "ok" => lifespan = pre.lifespan
        /\ GE(SeedMass, 43, 100) =>
            /\ outcome = "ok"
            /\ temperature = Mul(5800, 1, Pow(SeedMass, 101, 200))
            /\ spectral_type = determine_spectral_type_with_subclass(temperature)
        /\ pre.spectral_type = Str(<<"G", "2">>) => spectral_type # pre.spectral_type

C4_Witness ==
    /\ SpectralSeeded
    /\ last = "calculate_properties"
    /\ pre.spectral_type = Str(<<"G", "2">>)
    /\ mass = Rat(1133, 1000)
    /\ spectral_type = Str(<<"F", "8">>)

\* The last call took a positive real temperature as its seed.
TemperatureSeeded ==
    /\ \/ last = "calculate_from_temperature"
       \/ last = "calculate_properties" /\ ~Truthy(pre.mass)
    /\ Positive(pre.temperature)

\* C5: with a temperature T > 0 as seed, mass = (T/5800)^(1/0.505), and
\* temperature, lifespan and spectral type are those the mass path derives
\* from that mass; in exact arithmetic the stored temperature is T again.
C5_TemperatureRoundTrip ==
    TemperatureSeeded =>
        /\ outcome = "ok"
        /\ mass = Pow(Mul(1, 5800, pre.temperature), 200, 101)
        /\ temperature = Mul(5800, 1, Pow(mass, 101, 200))
        /\ lifespan = (IF GE(mass, 43, 100) THEN Mul(10, 1, Pow(mass, -5, 2))
                       ELSE Mul(15, 1, Pow(mass, -9, 5)))
        /\ spectral_type = determine_spectral_type_with_subclass(temperature)
        /\ temperature = pre.temperature

C5_Witness ==
    /\ TemperatureSeeded
    /\ last = "calculate_properties"
    /\ pre.temperature = Rat(30000, 1)
    /\ IsPow(mass)
    /\ temperature = Rat(30000, 1)
    /\ spectral_type = Str(<<"O", "9">>)

\* C6: calculate_properties raises and changes no field (a) when none of
\* mass, temperature and spectral type is supplied and (b) when the spectral
\* type is the seed and its first letter is not in the table.
C6_RejectedInputs ==
    (last = "calculate_properties" /\ ~Truthy(pre.mass) /\ ~Truthy(pre.temperature)) =>
        /\ ~TruthyStr(pre.spectral_type) => outcome = ErrNoSeed /\ FieldsUnchanged
        /\ (TruthyStr(pre.spectral_type)
              /\ pre.spectral_type.s[1] \notin {"O", "B", "A", "F", "G", "K", "M", "L", "T"}) =>
                outcome = ErrUnknown /\ FieldsUnchanged
        /\ (calls = 1 /\ outcome \in {ErrNoSeed, ErrUnknown}) =>
            /\ mass = args.mass
            /\ temperature = args.temperature
            /\ lifespan = NoneVal
            /\ spectral_type = args.spectral_type
            /\ metallicity = (IF IsNone(args.metallicity) THEN Rat(1, 1) ELSE args.metallicity)

C6_Witness ==
    /\ last = "calculate_properties"
    /\ calls = 1
    /\ outcome = ErrUnknown
    /\ spectral_type = Str(<<"Z", "5">>)
    /\ IsNone(mass)

\* The last call ran the mass path.
MassPath ==
    \/ last = "calculate_from_mass"
    \/ last = "calculate_properties" /\ Truthy(pre.mass)

\* C7: the mass path raises the invalid-mass error whenever mass is absent,
\* zero or negative, and does so before changing any field.
C7_InvalidMassRejected ==
    (MassPath /\ (IsNone(pre.mass) \/ (IsRat(pre.mass) /\ pre.mass.cn <= 0))) =>
        outcome = ErrMass /\ FieldsUnchanged

\* C8: after a successful calculate_properties all five fields are set and
\* mass, temperature, lifespan and metallicity are greater than 0.
C8_ResolvedPositive ==
    Resolved =>
        /\ ~IsNone(mass) /\ ~IsNone(temperature) /\ ~IsNone(lifespan)
        /\ ~IsNone(metallicity) /\ spectral_type.k = "str"
        /\ Positive(mass) /\ Positive(temperature) /\ Positive(lifespan)
        /\ Positive(metallicity)

\* C9: after a successful calculate_properties, a spectral type that begins
\* with a band letter (and is not the below-T label) is that letter followed
\* by one digit 0..9.
C9_SubclassDigit ==
    (Resolved /\ spectral_type.k = "str" /\ Len(spectral_type.s) > 0
        /\ spectral_type.s[1] \in {"O", "B", "A", "F", "G", "K", "M", "L", "T"}
        /\ spectral_type # StrVal(BelowT)) =>
            Len(spectral_type.s) = 2 /\ isdigit(Rest(spectral_type.s))

\* C10: a second calculate_properties right after a successful one returns
\* normally and leaves every field as the first call left it.
C10_Idempotent ==
    (last = "calculate_properties" /\ pre.last = "calculate_properties"
        /\ pre.err = "ok") =>
            outcome = "ok" /\ FieldsUnchanged

====
